---- MODULE Spec2Model ----
(***************************************************************************)
(* Model of scripts/hash-session-logs.cjs: the Structural Rewriter         *)
(* (hashData, processObject) and the Stream Driver (processJsonlFile).     *)
(*                                                                         *)
(* Text is a sequence of one-character strings.  A JSON value is a node    *)
(*   [k |-> kind, s |-> text, items |-> <<[key |-> text, val |-> node]>>]  *)
(* with kind in "null", "bool", "num", "str", "arr", "obj"; s holds the    *)
(* scalar's text, items the elements (key <<>>) or the own properties in   *)
(* the engine's enumeration order.                                         *)
(***************************************************************************)
EXTENDS Integers, Sequences, FiniteSets, TLC

(***************************************************************************)
(* Program constants and bounds                                            *)
(***************************************************************************)
\* obj.data.length > 100
Threshold == 100
\* length of digest('hex') of a SHA-256 hash
DigestLen == 64
\* nesting depth of the JSON trees handed to processObject
MaxDepth == 2
\* number of calls of processObject on the same object
MaxCalls == 2

(***************************************************************************)
(* Text                                                                    *)
(***************************************************************************)
Alphabet ==
  << "0", "1", "2", "3", "4", "5", "6", "7", "8", "9",
     "a", "b", "c", "d", "e", "f", "g", "h", "i", "j", "k", "l", "m",
     "n", "o", "p", "q", "r", "s", "t", "u", "v", "w", "x", "y", "z",
     "O", "P", ".", " " >>

HexDigits == << "0", "1", "2", "3", "4", "5", "6", "7",
                "8", "9", "a", "b", "c", "d", "e", "f" >>

CharCode(c) == CHOOSE i \in 1..Len(Alphabet) : Alphabet[i] = c

Rep(c, n) == [i \in 1..n |-> c]

T_base64 == << "b", "a", "s", "e", "6", "4" >>
T_other == << "o", "t", "h", "e", "r" >>
T_type == << "t", "y", "p", "e" >>
T_data == << "d", "a", "t", "a" >>
T_x == << "x" >>
T_hasOwnProperty ==
  << "h", "a", "s", "O", "w", "n", "P", "r", "o", "p", "e", "r", "t", "y" >>
T_true == << "t", "r", "u", "e" >>
T_null == << "n", "u", "l", "l" >>
T_7 == << "7" >>

(***************************************************************************)
(* hashData: a 256-bit digest in lowercase hex.  The digest function is a  *)
(* stand-in for SHA-256 (a positional hash of the characters, spread over  *)
(* 64 hex digits): deterministic, fixed length, depending on every         *)
(* character of the input.                                                 *)
(***************************************************************************)
RECURSIVE HashAcc(_, _, _)
\* the contribution of data[lo..hi], halving the range
HashAcc(data, lo, hi) ==
  IF lo > hi THEN 5381
  ELSE IF lo = hi THEN CharCode(data[lo]) + 1
  ELSE LET mid == (lo + hi) \div 2
       IN  ((HashAcc(data, lo, mid) * 131) + (HashAcc(data, mid + 1, hi) * 31)
             + (hi - lo)) % 65521

hashData(data) ==
  LET acc == HashAcc(data, 1, Len(data))
  IN  [i \in 1..DigestLen |-> HexDigits[(((acc \div i) + (acc * i) + i) % 16) + 1]]

(***************************************************************************)
(* JSON values                                                             *)
(***************************************************************************)
JNull == [k |-> "null", s |-> T_null, items |-> << >>]
JTrue == [k |-> "bool", s |-> T_true, items |-> << >>]
JNum(t) == [k |-> "num", s |-> t, items |-> << >>]
JStr(t) == [k |-> "str", s |-> t, items |-> << >>]
Prop(key, val) == [key |-> key, val |-> val]
JArr(vals) ==
  [k |-> "arr", s |-> << >>,
   items |-> [i \in 1..Len(vals) |-> Prop(<< >>, vals[i])]]
JObj(props) == [k |-> "obj", s |-> << >>, items |-> props]

HasKey(obj, key) == \E i \in 1..Len(obj.items) : obj.items[i].key = key
KeyIndex(obj, key) == CHOOSE i \in 1..Len(obj.items) : obj.items[i].key = key
\* obj[key]; keys of an object are distinct
Get(obj, key) == obj.items[KeyIndex(obj, key)].val

\* obj.type === 'base64' && typeof obj.data === 'string' && obj.data.length > 100
IsMarker_lowThreshold(obj) ==
  /\ obj.k = "obj"
  /\ HasKey(obj, T_type) /\ Get(obj, T_type) = JStr(T_base64)
  /\ HasKey(obj, T_data) /\ Get(obj, T_data).k = "str"
  /\ Len(Get(obj, T_data).s) > Threshold \div 2

IsMarker(obj) ==
  /\ obj.k = "obj"
  /\ HasKey(obj, T_type) /\ Get(obj, T_type) = JStr(T_base64)
  /\ HasKey(obj, T_data) /\ Get(obj, T_data).k = "str"
  /\ Len(Get(obj, T_data).s) > Threshold

\* obj.data = hashData(obj.data)
HashMarker_dropsType(obj) ==
  [obj EXCEPT !.items =
     [i \in 1..Len(obj.items) |->
        IF obj.items[i].key = T_data
          THEN Prop(T_data, JStr(hashData(obj.items[i].val.s)))
          ELSE IF obj.items[i].key = T_type
                 THEN Prop(T_type, JStr(T_other))
                 ELSE obj.items[i]]]

\* hashData(obj.data) computed and not assigned
HashMarker_notAssigned(obj) == obj

HashMarker(obj) ==
  [obj EXCEPT !.items[KeyIndex(obj, T_data)].val =
     JStr(hashData(Get(obj, T_data).s))]

\* obj.hasOwnProperty(key) of the for-in guard: the call throws a TypeError
\* when the parsed object has an own property named hasOwnProperty, whose
\* value (a JSON value) is never a function
GuardThrows(obj) == HasKey(obj, T_hasOwnProperty)

(***************************************************************************)
(* processObject mutates obj in place and may throw.  The result is the    *)
(* object as the call leaves it and whether it threw.                      *)
(***************************************************************************)
RECURSIVE processObject(_), Walk(_, _, _)
\* obj.forEach(item => processObject(item)) and
\* for (const key in obj) if (obj.hasOwnProperty(key)) processObject(obj[key])
Walk(obj, i, guarded) ==
  IF i > Len(obj.items) THEN [val |-> obj, threw |-> FALSE]
  ELSE IF guarded /\ GuardThrows(obj) THEN [val |-> obj, threw |-> TRUE]
  ELSE LET r == processObject(obj.items[i].val)
           o == [obj EXCEPT !.items[i].val = r.val]
       IN  IF r.threw THEN [val |-> o, threw |-> TRUE]
           ELSE Walk(o, i + 1, guarded)

processObject(obj) ==
  IF obj.k = "null" THEN [val |-> obj, threw |-> FALSE]
  ELSE IF obj.k = "arr" THEN Walk(obj, 1, FALSE)
  ELSE IF obj.k = "obj"
    THEN Walk(IF IsMarker(obj) THEN HashMarker(obj) ELSE obj, 1, TRUE)
  ELSE [val |-> obj, threw |-> FALSE]

(***************************************************************************)
(* Lines.  A line is a sequence of tokens [t |-> kind, s |-> text]: the    *)
(* punctuation "{" "}" "[" "]" ":" ",", "ws" (white space), "str" (a       *)
(* string literal, s its content), "num", "lit" (true, null) and "bad"     *)
(* (text that is no JSON token).                                           *)
(***************************************************************************)
Tk(t) == [t |-> t, s |-> << >>]
TkStr(s) == [t |-> "str", s |-> s]
TkNum(s) == [t |-> "num", s |-> s]
TkLit(s) == [t |-> "lit", s |-> s]
TkBad(s) == [t |-> "bad", s |-> s]
TkWs == [t |-> "ws", s |-> << " " >>]

\* bytes of a token in the file (the modelled text is ASCII)
TokBytes(tok) ==
  IF tok.t = "str" THEN Len(tok.s) + 2
  ELSE IF tok.t \in { "num", "lit", "bad", "ws" } THEN Len(tok.s)
  ELSE 1

RECURSIVE SumBytes(_, _)
SumBytes(toks, i) ==
  IF i > Len(toks) THEN 0 ELSE TokBytes(toks[i]) + SumBytes(toks, i + 1)

\* bytes of line + '\n'
LineBytes(line) == SumBytes(line, 1) + 1

RECURSIVE FileBytes(_, _)
\* size of a file holding the first n of lines
FileBytes(lines, n) ==
  IF n = 0 THEN 0 ELSE FileBytes(lines, n - 1) + LineBytes(lines[n])

(***************************************************************************)
(* JSON.parse                                                              *)
(***************************************************************************)
IsDigitChar(c) == CharCode(c) <= 10

\* an integer index key ("0", "7", "12"): enumerated before string keys,
\* in ascending order
IsIndexKey(key) ==
  /\ Len(key) > 0
  /\ \A i \in 1..Len(key) : IsDigitChar(key[i])
  /\ Len(key) = 1 \/ key[1] # "0"

RECURSIVE IndexValue(_, _)
IndexValue(key, n) ==
  IF n = 0 THEN 0 ELSE (IndexValue(key, n - 1) * 10) + (CharCode(key[n]) - 1)

\* obj[key] = val while parsing: a repeated key keeps its place and takes the
\* last value; a new index key goes among the index keys, a new string key
\* at the end
DefineProp(props, key, val) ==
  IF \E i \in 1..Len(props) : props[i].key = key
    THEN [i \in 1..Len(props) |->
            IF props[i].key = key THEN Prop(key, val) ELSE props[i]]
  ELSE IF IsIndexKey(key)
    THEN LET before ==
               Cardinality({ i \in 1..Len(props) :
                   /\ IsIndexKey(props[i].key)
                   /\ IndexValue(props[i].key, Len(props[i].key))
                        < IndexValue(key, Len(key)) })
         IN  SubSeq(props, 1, before) \o << Prop(key, val) >>
               \o SubSeq(props, before + 1, Len(props))
  ELSE Append(props, Prop(key, val))

\* the text of Number(s): 7.0 is 7
NumberText(s) ==
  IF Len(s) > 2 /\ s[Len(s) - 1] = "." /\ s[Len(s)] = "0"
    THEN SubSeq(s, 1, Len(s) - 2)
    ELSE s

TokAt(toks, i) == IF i <= Len(toks) THEN toks[i].t ELSE "eof"

ParseFail == [ok |-> FALSE, val |-> JNull, next |-> 0]

RECURSIVE ParseValue(_, _), ParseElems(_, _, _), ParseMembers(_, _, _)
ParseValue(toks, i) ==
  LET t == TokAt(toks, i)
  IN  IF t = "str" THEN [ok |-> TRUE, val |-> JStr(toks[i].s), next |-> i + 1]
      ELSE IF t = "num"
        THEN [ok |-> TRUE, val |-> JNum(NumberText(toks[i].s)), next |-> i + 1]
      ELSE IF t = "lit"
        THEN [ok |-> TRUE,
              val |-> IF toks[i].s = T_true THEN JTrue ELSE JNull,
              next |-> i + 1]
      ELSE IF t = "["
        THEN IF TokAt(toks, i + 1) = "]"
               THEN [ok |-> TRUE, val |-> JArr(<< >>), next |-> i + 2]
               ELSE ParseElems(toks, i + 1, << >>)
      ELSE IF t = "{"
        THEN IF TokAt(toks, i + 1) = "}"
               THEN [ok |-> TRUE, val |-> JObj(<< >>), next |-> i + 2]
               ELSE ParseMembers(toks, i + 1, << >>)
      ELSE ParseFail

ParseElems(toks, i, vals) ==
  LET v == ParseValue(toks, i)
  IN  IF ~v.ok THEN ParseFail
      ELSE IF TokAt(toks, v.next) = ","
        THEN ParseElems(toks, v.next + 1, Append(vals, v.val))
      ELSE IF TokAt(toks, v.next) = "]"
        THEN [ok |-> TRUE, val |-> JArr(Append(vals, v.val)),
              next |-> v.next + 1]
      ELSE ParseFail

ParseMembers(toks, i, props) ==
  IF TokAt(toks, i) # "str" \/ TokAt(toks, i + 1) # ":" THEN ParseFail
  ELSE LET v == ParseValue(toks, i + 2)
           ps == DefineProp(props, toks[i].s, v.val)
       IN  IF ~v.ok THEN ParseFail
           ELSE IF TokAt(toks, v.next) = ","
             THEN ParseMembers(toks, v.next + 1, ps)
           ELSE IF TokAt(toks, v.next) = "}"
             THEN [ok |-> TRUE, val |-> JObj(ps), next |-> v.next + 1]
           ELSE ParseFail

IsNotWs(tok) == tok.t # "ws"

\* JSON.parse(line): ok is FALSE when it throws a SyntaxError
JSONparse(line) ==
  LET toks == SelectSeq(line, IsNotWs)
      r == ParseValue(toks, 1)
  IN  IF r.ok /\ r.next = Len(toks) + 1
        THEN [ok |-> TRUE, val |-> r.val]
        ELSE [ok |-> FALSE, val |-> JNull]

(***************************************************************************)
(* JSON.stringify                                                          *)
(***************************************************************************)
RECURSIVE JSONstringify(_), StringifyItems(_, _)
StringifyItems(v, i) ==
  IF i > Len(v.items) THEN << >>
  ELSE (IF i > 1 THEN << Tk(",") >> ELSE << >>)
         \o (IF v.k = "obj" THEN << TkStr(v.items[i].key), Tk(":") >> ELSE << >>)
         \o JSONstringify(v.items[i].val)
         \o StringifyItems(v, i + 1)

JSONstringify(v) ==
  IF v.k = "str" THEN << TkStr(v.s) >>
  ELSE IF v.k = "num" THEN << TkNum(v.s) >>
  ELSE IF v.k \in { "bool", "null" } THEN << TkLit(v.s) >>
  ELSE IF v.k = "arr" THEN << Tk("[") >> \o StringifyItems(v, 1) \o << Tk("]") >>
  ELSE << Tk("{") >> \o StringifyItems(v, 1) \o << Tk("}") >>

(***************************************************************************)
(* State of one call of processJsonlFile(inputPath, outputDir)             *)
(*   inputExists, outputDirExists   the file system before the call        *)
(*   input          the lines readline delivers from the input file        *)
(*   called         the call has been made                                 *)
(*   promise        "pending", "resolved" or "rejected"                    *)
(*   summary        the value the promise resolved with                    *)
(*   dirCreated     mkdirSync created the output directory                 *)
(*   fileStream     "none", "open" or "errored"                            *)
(*   nextLine       index of the next line readline emits                  *)
(*   rlClosed       the 'close' handler has run                            *)
(*   outputStream   "none", "opening", "open", "finished" or "errored"     *)
(*   ended          outputStream.end() has been called                     *)
(*   outputFile     "absent" or "present"                                  *)
(*   written        the lines handed to outputStream.write, in order       *)
(*   flushed        how many of them are in the output file                *)
(*   lineCount, processedCount, errorCount   the handler's counters        *)
(*   failure        the fatal I/O failure that occurred, or "none"         *)
(*   crashed        an exception escaped an event handler (uncaught)       *)
(***************************************************************************)
VARIABLES inputExists, outputDirExists, input, called, promise, summary,
          dirCreated, fileStream, nextLine, rlClosed, outputStream, ended,
          outputFile, written, flushed, lineCount, processedCount,
          errorCount, failure, crashed

dvars == << inputExists, outputDirExists, input, called, promise, summary,
            dirCreated, fileStream, nextLine, rlClosed, outputStream, ended,
            outputFile, written, flushed, lineCount, processedCount,
            errorCount, failure, crashed >>

NoSummary ==
  [linesProcessed |-> -1, errors |-> -1, inputSize |-> -1, outputSize |-> -1]

\* nothing has been called
DriverIdle ==
  /\ called = FALSE
  /\ promise = "pending"
  /\ summary = NoSummary
  /\ dirCreated = FALSE
  /\ fileStream = "none"
  /\ nextLine = 1
  /\ rlClosed = FALSE
  /\ outputStream = "none"
  /\ ended = FALSE
  /\ outputFile = "absent"
  /\ written = << >>
  /\ flushed = 0
  /\ lineCount = 0
  /\ processedCount = 0
  /\ errorCount = 0
  /\ failure = "none"
  /\ crashed = FALSE

(***************************************************************************)
(* Paths.  A path is a sequence of segments, a segment a text.             *)
(*   inputPath, outputDir   the arguments of processJsonlFile              *)
(*   outputPath             the path of the output file, once computed     *)
(***************************************************************************)
VARIABLES inputPath, outputDir, outputPath

pvars == << inputPath, outputDir, outputPath >>

NoPath == << >>

T_dotJsonl == << ".", "j", "s", "o", "n", "l" >>
T_dotHashedJsonl ==
  << ".", "h", "a", "s", "h", "e", "d", ".", "j", "s", "o", "n", "l" >>

Occurs(s, pat, i) ==
  /\ i + Len(pat) - 1 <= Len(s)
  /\ SubSeq(s, i, i + Len(pat) - 1) = pat

\* s.indexOf(pat), counted from 1; 0 when pat does not occur
IndexOf(s, pat) ==
  IF \E i \in 1..Len(s) : Occurs(s, pat, i)
    THEN CHOOSE i \in 1..Len(s) :
           Occurs(s, pat, i) /\ \A j \in 1..(i - 1) : ~Occurs(s, pat, j)
    ELSE 0

\* s.replace(pat, by) with a string pattern: the first occurrence only
StringReplace(s, pat, by) ==
  LET i == IndexOf(s, pat)
  IN  IF i = 0 THEN s
      ELSE SubSeq(s, 1, i - 1) \o by \o SubSeq(s, i + Len(pat), Len(s))

\* path.basename(p)
basename(p) == p[Len(p)]

\* path.join(dir, name)
pathJoin(dir, name) == Append(dir, name)

\* inputFilename, outputFilename, outputPath
OutputPathOf(inPath, outDir) ==
  pathJoin(outDir, StringReplace(basename(inPath), T_dotJsonl, T_dotHashedJsonl))

T_a == << "a" >>
T_in == << "i", "n" >>
T_out == << "o", "u", "t" >>

\* the paths of the runs whose lines are followed
PathsFixed ==
  /\ inputPath = << T_in, T_a \o T_dotJsonl >>
  /\ outputDir = << T_out >>
  /\ outputPath = NoPath

(***************************************************************************)
(* The rewriter on its own: processObject is exported and called on an     *)
(* object, possibly repeatedly (a second pass over rewritten output).      *)
(*   orig   the object as first passed                                     *)
(*   obj    the object now (processObject mutates it in place)             *)
(*   calls  number of calls made on it                                     *)
(*   threw  whether the last call threw                                    *)
(***************************************************************************)
VARIABLES orig, obj, calls, threw

rvars == << orig, obj, calls, threw >>

vars == << dvars, rvars, pvars >>

S100 == Rep("x", Threshold)
S101 == Rep("x", Threshold + 1)

Marker == JObj(<< Prop(T_type, JStr(T_base64)), Prop(T_data, JStr(S101)) >>)

Scalars == { JNull, JTrue, JNum(T_7), JStr(T_base64), JStr(S101) }

Flat ==
  { JObj(<< Prop(T_type, t), Prop(T_data, d) >>) :
      t \in { JStr(T_base64), JStr(T_other) },
      d \in { JStr(S100), JStr(S101), JNum(T_7) } }
  \cup { JObj(<< Prop(T_data, JStr(S101)), Prop(T_type, JStr(T_base64)) >>),
         JObj(<< Prop(T_data, JStr(S101)) >>),
         JObj(<< >>) }

Nest(c) ==
  { JArr(<< c >>),
    JArr(<< c, Marker >>),
    JObj(<< Prop(T_x, c) >>),
    JObj(<< Prop(T_type, JStr(T_base64)), Prop(T_data, c) >>),
    JObj(<< Prop(T_type, JStr(T_other)), Prop(T_data, JStr(S101)),
            Prop(T_x, c) >>),
    JObj(<< Prop(T_hasOwnProperty, JNum(T_7)), Prop(T_x, c) >>),
    JObj(<< Prop(T_x, c), Prop(T_hasOwnProperty, JTrue) >>) }

RECURSIVE Trees(_)
Trees(n) ==
  IF n = 0 THEN Scalars \cup Flat
  ELSE Trees(n - 1) \cup UNION { Nest(c) : c \in Trees(n - 1) }

RewriterInit ==
  /\ orig \in Trees(MaxDepth)
  /\ obj = orig
  /\ calls = 0
  /\ threw = FALSE
  /\ inputExists = FALSE
  /\ outputDirExists = FALSE
  /\ input = << >>
  /\ DriverIdle
  /\ PathsFixed

\* processObject(obj)
CallProcessObject ==
  /\ calls < MaxCalls
  /\ LET r == processObject(obj)
     IN  /\ obj' = r.val
         /\ threw' = r.threw
  /\ calls' = calls + 1
  /\ UNCHANGED << orig, dvars, pvars >>

RewriterNext == CallProcessObject

RewriterSpec == RewriterInit /\ [][RewriterNext]_vars

(***************************************************************************)
(* Properties of the rewriter                                              *)
(***************************************************************************)
IsDigest(t) ==
  /\ Len(t) = DigestLen
  /\ \A i \in 1..Len(t) : \E j \in 1..Len(HexDigits) : t[i] = HexDigits[j]

\* every marker node of b (at any depth) has, in a, data = hashData(its data)
RECURSIVE MarkersHashed(_, _)
MarkersHashed(b, a) ==
  /\ IsMarker(b) =>
       /\ HasKey(a, T_data)
       /\ Get(a, T_data) = JStr(hashData(Get(b, T_data).s))
       /\ IsDigest(Get(a, T_data).s)
  /\ Len(a.items) = Len(b.items)
  /\ \A i \in 1..Len(b.items) : MarkersHashed(b.items[i].val, a.items[i].val)

\* C4: after processObject(v), every object node of v that was a Binary
\* Payload Marker, at any depth, has data = hashData(original data), a
\* 64-character lowercase hex string.
C4_MarkersHashed == calls >= 1 => MarkersHashed(orig, obj)

\* the same for the calls that return normally
C4_MarkersHashedOnReturn ==
  (calls >= 1 /\ ~threw) => MarkersHashed(orig, obj)

\* an object with a data field that is not a marker: data too short, type
\* not "base64", or data not a string
NonMatching(b) == b.k = "obj" /\ HasKey(b, T_data) /\ ~IsMarker(b)

RECURSIVE NonMatchingKept(_, _), NonMatchingRecursed(_, _)
\* the data field of every non-matching node is the value it was
NonMatchingKept(b, a) ==
  /\ Len(a.items) = Len(b.items)
  /\ NonMatching(b) =>
       /\ HasKey(a, T_data)
       /\ Get(a, T_data).k = Get(b, T_data).k
       /\ Get(a, T_data).s = Get(b, T_data).s
  /\ \A i \in 1..Len(b.items) : NonMatchingKept(b.items[i].val, a.items[i].val)

\* the markers below every non-matching node are hashed
NonMatchingRecursed(b, a) ==
  /\ Len(a.items) = Len(b.items)
  /\ NonMatching(b) =>
       \A i \in 1..Len(b.items) : MarkersHashed(b.items[i].val, a.items[i].val)
  /\ \A i \in 1..Len(b.items) :
       NonMatchingRecursed(b.items[i].val, a.items[i].val)

\* C5: processObject never changes the data field of a non-matching object
\* (length <= 100, type other than "base64", data not a string), and the
\* fields of such an object are still recursed into, so that a marker nested
\* below it is hashed.
C5_NonMatching ==
  calls >= 1 => NonMatchingKept(orig, obj) /\ NonMatchingRecursed(orig, obj)

\* the first half of C5 alone
C5_DataKept == calls >= 1 => NonMatchingKept(orig, obj)

\* C6: a second pass changes nothing: once processObject has been applied,
\* applying it again leaves the object as it is.
C6_SecondPassNoChange == [][calls >= 1 => obj' = obj]_vars

C6_Witness == calls = 2 /\ obj # orig /\ ~threw

\* a differs from b in nothing but the data value of b's marker nodes
RECURSIVE SameButMarkerData(_, _)
SameButMarkerData(b, a) ==
  /\ a.k = b.k
  /\ a.s = b.s
  /\ Len(a.items) = Len(b.items)
  /\ \A i \in 1..Len(b.items) :
       /\ a.items[i].key = b.items[i].key
       /\ IF IsMarker(b) /\ b.items[i].key = T_data
            THEN a.items[i].val.k = "str"
            ELSE SameButMarkerData(b.items[i].val, a.items[i].val)

\* C7: processObject changes nothing except the data value of marker
\* objects: keys, other fields (type included), scalars, array length and
\* element order are as before.
C7_Frame == calls >= 1 => SameButMarkerData(orig, obj)

C7_Witness ==
  /\ calls >= 1
  /\ obj # orig
  /\ orig.k = "arr"
  /\ Len(orig.items) = 2
  /\ IsMarker(orig.items[1].val)

\* no object node of a, at any depth, is a marker
RECURSIVE NoMarkerIn(_)
NoMarkerIn(a) ==
  /\ ~IsMarker(a)
  /\ \A i \in 1..Len(a.items) : NoMarkerIn(a.items[i].val)

\* C16: after processObject(v) returns, no object node anywhere in v
\* satisfies the Binary Payload Marker predicate any more.
C16_NoMarkerLeft == (calls >= 1 /\ ~threw) => NoMarkerIn(obj)

C16_Witness ==
  /\ calls >= 1
  /\ ~threw
  /\ ~NoMarkerIn(orig)
  /\ orig.k = "obj"
  /\ ~IsMarker(orig)


(***************************************************************************)
(* The Stream Driver: processJsonlFile                                     *)
(***************************************************************************)
\* number of lines of the input file
MaxLines == 2

L_marker ==
  << Tk("{"), TkStr(T_type), Tk(":"), TkStr(T_base64), Tk(","),
     TkStr(T_data), Tk(":"), TkStr(S101), Tk("}") >>
L_other ==
  << Tk("{"), TkStr(T_type), Tk(":"), TkStr(T_other), Tk(","),
     TkStr(T_data), Tk(":"), TkStr(S101), Tk("}") >>
\* not valid json
L_notJson == << TkBad(<< "n", "o", "t" >>), TkWs, TkBad(<< "j", "s", "o", "n" >>) >>
\* {"x": }
L_noValue == << Tk("{"), TkStr(T_x), Tk(":"), TkWs, Tk("}") >>
\* {"hasOwnProperty":7,"x":{"type":"base64","data":"xxx..."}}
L_hasOwnProperty ==
  << Tk("{"), TkStr(T_hasOwnProperty), Tk(":"), TkNum(T_7), Tk(","),
     TkStr(T_x), Tk(":") >> \o L_marker \o << Tk("}") >>
\* {"x": [7.0, null], "7": true}
L_spaced ==
  << Tk("{"), TkStr(T_x), Tk(":"), TkWs, Tk("["), TkNum(<< "7", ".", "0" >>),
     Tk(","), TkWs, TkLit(T_null), Tk("]"), Tk(","), TkWs, TkStr(T_7), Tk(":"),
     TkWs, TkLit(T_true), Tk("}") >>
L_empty == << >>

Lines ==
  { L_marker, L_other, L_notJson, L_noValue, L_hasOwnProperty, L_spaced,
    L_empty }

\* the three lines of the end-to-end scenario: a marker, a non-marker, text
\* that is not JSON
Scenario == << L_marker, L_other, L_notJson >>

RECURSIVE SeqsUpTo(_, _)
SeqsUpTo(S, n) ==
  IF n = 0 THEN { << >> }
  ELSE SeqsUpTo(S, n - 1)
         \cup { Append(q, x) : q \in { r \in SeqsUpTo(S, n - 1) : Len(r) = n - 1 },
                               x \in S }

Init ==
  /\ inputExists \in BOOLEAN
  /\ outputDirExists \in BOOLEAN
  /\ input \in IF inputExists
                  THEN SeqsUpTo(Lines, MaxLines) \cup { Scenario }
                  ELSE { << >> }
  /\ DriverIdle
  /\ PathsFixed
  /\ orig = JNull
  /\ obj = JNull
  /\ calls = 0
  /\ threw = FALSE

\* the body of the 'line' handler for one line: what it writes and which
\* counter it increments (try: parse, processObject, write, processedCount++;
\* catch: errorCount++, write the original line)
LineOutcome_dropsOnError(line) ==
  LET p == JSONparse(line)
      r == processObject(p.val)
  IN  IF p.ok /\ ~r.threw
        THEN [writes |-> << JSONstringify(r.val) >>, processed |-> 1, errors |-> 0]
        ELSE [writes |-> << >>, processed |-> 0, errors |-> 1]

LineOutcome_countsBoth(line) ==
  LET p == JSONparse(line)
      r == processObject(p.val)
  IN  IF p.ok /\ ~r.threw
        THEN [writes |-> << JSONstringify(r.val) >>, processed |-> 1, errors |-> 0]
        ELSE [writes |-> << line >>, processed |-> 1, errors |-> 1]

\* one hash object shared by the lines of a run: only the first digest works
LineOutcome_sharedHasher(line) ==
  LET p == JSONparse(line)
      r == processObject(p.val)
  IN  IF p.ok /\ ~r.threw /\ ~(processedCount > 0 /\ r.val # p.val)
        THEN [writes |-> << JSONstringify(r.val) >>, processed |-> 1, errors |-> 0]
        ELSE [writes |-> << line >>, processed |-> 0, errors |-> 1]

\* the catch branch without errorCount++
LineOutcome_noErrorCount(line) ==
  LET p == JSONparse(line)
      r == processObject(p.val)
  IN  IF p.ok /\ ~r.threw
        THEN [writes |-> << JSONstringify(r.val) >>, processed |-> 1, errors |-> 0]
        ELSE [writes |-> << line >>, processed |-> 0, errors |-> 0]

LineOutcome(line) ==
  LET p == JSONparse(line)
      r == processObject(p.val)
  IN  IF p.ok /\ ~r.threw
        THEN [writes |-> << JSONstringify(r.val) >>, processed |-> 1, errors |-> 0]
        ELSE [writes |-> << line >>, processed |-> 0, errors |-> 1]

\* processJsonlFile with a missing input: reject and return
CallMissing_noReturn ==
  /\ ~called
  /\ ~inputExists
  /\ called' = TRUE
  /\ promise' = "rejected"
  /\ dirCreated' = ~outputDirExists
  /\ outputDirExists' = TRUE
  /\ fileStream' = "open"
  /\ outputStream' = "opening"
  /\ UNCHANGED << inputExists, input, summary, nextLine, rlClosed, ended,
                  outputFile, written, flushed, lineCount, processedCount,
                  errorCount, failure, crashed, rvars, pvars >>

CallMissing ==
  /\ ~called
  /\ ~inputExists
  /\ called' = TRUE
  /\ promise' = "rejected"
  /\ UNCHANGED << inputExists, outputDirExists, input, summary, dirCreated,
                  fileStream, nextLine, rlClosed, outputStream, ended,
                  outputFile, written, flushed, lineCount, processedCount,
                  errorCount, failure, crashed, rvars, pvars >>

\* processJsonlFile with the input present: the executor runs to its end,
\* creating the directory if missing, the streams and the handlers
CallStart ==
  /\ ~called
  /\ inputExists
  /\ called' = TRUE
  /\ dirCreated' = ~outputDirExists
  /\ outputDirExists' = TRUE
  /\ fileStream' = "open"
  /\ outputPath' = OutputPathOf(inputPath, outputDir)
  /\ outputStream' = "opening"
  /\ lineCount' = 0
  /\ processedCount' = 0
  /\ errorCount' = 0
  /\ UNCHANGED << inputExists, input, promise, summary, nextLine, rlClosed,
                  ended, outputFile, written, flushed, failure, crashed,
                  rvars, inputPath, outputDir >>

\* fs.mkdirSync throws inside the executor: the promise rejects
CallMkdirFails ==
  /\ ~called
  /\ inputExists
  /\ ~outputDirExists
  /\ called' = TRUE
  /\ promise' = "rejected"
  /\ failure' = "mkdir"
  /\ UNCHANGED << inputExists, outputDirExists, input, summary, dirCreated,
                  fileStream, nextLine, rlClosed, outputStream, ended,
                  outputFile, written, flushed, lineCount, processedCount,
                  errorCount, crashed, rvars, pvars >>

\* the write stream's open completes: the file exists, empty
OutputOpened ==
  /\ ~crashed
  /\ outputStream = "opening"
  /\ outputStream' = "open"
  /\ outputFile' = "present"
  /\ UNCHANGED << inputExists, outputDirExists, input, called, promise,
                  summary, dirCreated, fileStream, nextLine, rlClosed, ended,
                  written, flushed, lineCount, processedCount, errorCount,
                  failure, crashed, rvars, pvars >>

\* the write stream writes its oldest buffered chunk to the file
Flush ==
  /\ ~crashed
  /\ outputStream = "open"
  /\ flushed < Len(written)
  /\ flushed' = flushed + 1
  /\ UNCHANGED << inputExists, outputDirExists, input, called, promise,
                  summary, dirCreated, fileStream, nextLine, rlClosed,
                  outputStream, ended, outputFile, written, lineCount,
                  processedCount, errorCount, failure, crashed, rvars, pvars >>

\* after end(), with everything written: 'finish', the file is closed
OutputFinish ==
  /\ ~crashed
  /\ outputStream = "open"
  /\ ended
  /\ flushed = Len(written)
  /\ outputStream' = "finished"
  /\ UNCHANGED << inputExists, outputDirExists, input, called, promise,
                  summary, dirCreated, fileStream, nextLine, rlClosed, ended,
                  outputFile, written, flushed, lineCount, processedCount,
                  errorCount, failure, crashed, rvars, pvars >>

\* the write stream emits 'error' (open, write or close failed): no listener
\* is registered on outputStream, so the event is thrown as an uncaught
\* exception
OutputError ==
  /\ ~crashed
  /\ outputStream \in { "opening", "open" }
  /\ outputStream' = "errored"
  /\ failure' = "output"
  /\ crashed' = TRUE
  /\ UNCHANGED << inputExists, outputDirExists, input, called, promise,
                  summary, dirCreated, fileStream, nextLine, rlClosed, ended,
                  outputFile, written, flushed, lineCount, processedCount,
                  errorCount, rvars, pvars >>

\* rl.on('line', ...)
LineEvent ==
  /\ ~crashed
  /\ fileStream = "open"
  /\ nextLine <= Len(input)
  /\ LET o == LineOutcome(input[nextLine])
     IN  /\ written' = written \o o.writes
         /\ processedCount' = processedCount + o.processed
         /\ errorCount' = errorCount + o.errors
  /\ lineCount' = lineCount + 1
  /\ nextLine' = nextLine + 1
  /\ UNCHANGED << inputExists, outputDirExists, input, called, promise,
                  summary, dirCreated, fileStream, rlClosed, outputStream,
                  ended, outputFile, flushed, failure, crashed, rvars, pvars >>

\* rl.on('close', ...): outputStream.end(), statSync of both files, resolve;
\* statSync(outputPath) throws when the file is not there yet
CloseEvent ==
  /\ ~crashed
  /\ fileStream = "open"
  /\ nextLine > Len(input)
  /\ ~rlClosed
  /\ rlClosed' = TRUE
  /\ ended' = TRUE
  /\ IF outputFile = "absent"
       THEN /\ crashed' = TRUE
            /\ failure' = "stat"
            /\ UNCHANGED << promise, summary >>
       ELSE /\ promise' = IF promise = "pending" THEN "resolved" ELSE promise
            /\ summary' =
                 IF promise = "pending"
                   THEN [linesProcessed |-> processedCount,
                         errors |-> errorCount,
                         inputSize |-> FileBytes(input, Len(input)),
                         outputSize |-> FileBytes(written, flushed)]
                   ELSE summary
            /\ UNCHANGED << crashed, failure >>
  /\ UNCHANGED << inputExists, outputDirExists, input, called, dirCreated,
                  fileStream, nextLine, outputStream, outputFile, written,
                  flushed, lineCount, processedCount, errorCount, rvars, pvars >>

\* the read stream emits 'error': fileStream.on('error') rejects; where
\* readline forwards the event, rl.on('error') also ends the output stream
InputError ==
  /\ ~crashed
  /\ fileStream = "open"
  /\ ~rlClosed
  /\ fileStream' = "errored"
  /\ failure' = "input"
  /\ promise' = IF promise = "pending" THEN "rejected" ELSE promise
  /\ \E forwarded \in BOOLEAN : ended' = (ended \/ forwarded)
  /\ UNCHANGED << inputExists, outputDirExists, input, called, summary,
                  dirCreated, nextLine, rlClosed, outputStream, outputFile,
                  written, flushed, lineCount, processedCount, errorCount,
                  crashed, rvars, pvars >>

Next ==
  \/ CallMissing
  \/ CallStart
  \/ CallMkdirFails
  \/ OutputOpened
  \/ Flush
  \/ OutputFinish
  \/ OutputError
  \/ LineEvent
  \/ CloseEvent
  \/ InputError

Spec == Init /\ [][Next]_vars

(***************************************************************************)
(* Properties of the Stream Driver                                         *)
(***************************************************************************)
ParsesOk(line) == JSONparse(line).ok

\* what the line handler writes for a line it transformed
Transformed(line) == JSONstringify(processObject(JSONparse(line).val).val)

\* C1: an input of N lines gives N output lines, the i-th output line being
\* the outcome (rewritten serialization or verbatim copy) of the i-th input
\* line: nothing dropped, duplicated or reordered, in what is handed to the
\* output stream and in what reaches the file.
C1_LineForLine ==
  /\ Len(written) = lineCount
  /\ lineCount = nextLine - 1
  /\ lineCount <= Len(input)
  /\ \A i \in 1..Len(written) :
       \/ written[i] = input[i]
       \/ ParsesOk(input[i]) /\ written[i] = Transformed(input[i])
  /\ flushed <= Len(written)
  /\ rlClosed => Len(written) = Len(input)
  /\ (rlClosed /\ outputStream = "finished") => flushed = Len(input)

C1_Witness ==
  /\ promise = "resolved"
  /\ outputStream = "finished"
  /\ Len(input) = 2
  /\ flushed = 2
  /\ written[1] # input[1]
  /\ written[2] = input[2]

\* C2: every line that parses as one JSON value is Transformed (the
\* rewriter's result is serialized and written, linesProcessed goes up by
\* one, the error counter does not); a line is Passthrough only when its
\* parse failed.
C2_ParsedIsTransformed ==
  /\ \A i \in 1..lineCount :
       ParsesOk(input[i]) =>
         i <= Len(written) /\ written[i] = Transformed(input[i])
  /\ processedCount = Cardinality({ i \in 1..lineCount : ParsesOk(input[i]) })
  /\ errorCount = Cardinality({ i \in 1..lineCount : ~ParsesOk(input[i]) })

\* C3: a line that is not valid JSON is written as it is, counts one error
\* and no processed line, and does not abort the run: the promise is not
\* settled and nothing is thrown by the handler, the input stays open for the
\* later lines, every line has been handled when the input closes, and the
\* summary counts the malformed lines among its errors.
C3_MalformedPassthrough ==
  /\ [][(lineCount' = lineCount + 1 /\ ~ParsesOk(input[nextLine])) =>
          /\ written' = Append(written, input[nextLine])
          /\ errorCount' = errorCount + 1
          /\ processedCount' = processedCount
          /\ promise' = promise
          /\ summary' = summary
          /\ crashed' = crashed
          /\ fileStream' = "open"
          /\ nextLine' = nextLine + 1]_vars
  /\ [](rlClosed => lineCount = Len(input))
  /\ [](promise = "resolved" =>
          /\ summary.errors >=
               Cardinality({ i \in 1..Len(input) : ~ParsesOk(input[i]) })
          /\ summary.linesProcessed + summary.errors = Len(input))

C3_Witness ==
  /\ promise = "resolved"
  /\ Len(input) = 2
  /\ ~ParsesOk(input[1])
  /\ ParsesOk(input[2])
  /\ written[1] = input[1]
  /\ summary.errors = 1
  /\ summary.linesProcessed = 1

\* C8: when the Run Summary is returned the sink is finalized: every line
\* handed to the output stream is in the file, the stream is closed, and
\* outputSize is the size of the complete output file.
C8_SinkFinalized ==
  promise = "resolved" =>
    /\ outputStream = "finished"
    /\ flushed = Len(written)
    /\ summary.outputSize = FileBytes(written, Len(written))

\* C9: with the input path missing at the call, the run fails before any
\* side effect: the promise rejects, no directory and no output file is
\* created, no stream is opened, no line is processed.
C9_MissingInputNoEffect ==
  (called /\ ~inputExists) =>
    /\ promise = "rejected"
    /\ ~dirCreated
    /\ outputFile = "absent"
    /\ fileStream = "none"
    /\ outputStream = "none"
    /\ lineCount = 0
    /\ written = << >>
    /\ summary = NoSummary

C9_Witness ==
  /\ called
  /\ ~inputExists
  /\ ~outputDirExists
  /\ promise = "rejected"

\* C10: every fatal I/O failure of a run, on the input or on the output,
\* reaches the caller as a rejection, and a failed run yields no Run Summary.
C10_FailuresReject ==
  failure \in { "mkdir", "input", "output" } =>
    promise = "rejected" /\ summary = NoSummary

\* C11: the driver does not read ahead of what it can write: the lines read
\* and not yet in the output file stay within a bound that does not depend
\* on the input (one line, the line in hand).
C11_BoundedReadAhead == lineCount - flushed <= 1

RECURSIVE RunOutput(_, _), RunProcessed(_, _), RunErrors(_, _)
\* what a run writes for the first n lines, and what it counts
RunOutput(lines, n) ==
  IF n = 0 THEN << >>
  ELSE RunOutput(lines, n - 1) \o LineOutcome(lines[n]).writes
RunProcessed(lines, n) ==
  IF n = 0 THEN 0
  ELSE RunProcessed(lines, n - 1) + LineOutcome(lines[n]).processed
RunErrors(lines, n) ==
  IF n = 0 THEN 0
  ELSE RunErrors(lines, n - 1) + LineOutcome(lines[n]).errors

C14_CountersAddUp ==
  /\ lineCount = nextLine - 1
  /\ lineCount = processedCount + errorCount
  /\ promise = "resolved" =>
       /\ summary.linesProcessed + summary.errors = Len(input)
       /\ input = Scenario =>
            summary.linesProcessed = 2 /\ summary.errors = 1

C14_Witness ==
  /\ promise = "resolved"
  /\ input = Scenario
  /\ lineCount = 3
  /\ summary.linesProcessed = 2
  /\ summary.errors = 1

\* the order of the events of a run: the directory is there before the
\* streams are made and before any line is handled; the summary comes after
\* the last line and the end of the input
C15_Ordered ==
  /\ lineCount > 0 => outputDirExists
  /\ fileStream # "none" => outputDirExists
  /\ summary # NoSummary =>
       promise = "resolved" /\ rlClosed /\ lineCount = Len(input)

\* the summary is made once: neither it, nor the promise, nor the counters
\* change afterwards
C15_SummaryOnce ==
  [][summary # NoSummary =>
       /\ summary' = summary
       /\ promise' = promise
       /\ lineCount' = lineCount
       /\ processedCount' = processedCount
       /\ errorCount' = errorCount]_vars

\* an uncaught exception ends the run: no event is delivered after it
C15_CrashIsFinal == crashed => ~ENABLED Next

\* C15: the events of a run are ordered (directory before lines, summary
\* after the last line), and a run that was started settles: when it has
\* come to its end, it has resolved with the summary or rejected.
C15_OrderedAndSettles ==
  /\ C15_Ordered
  /\ (called /\ crashed) => promise # "pending"


(***************************************************************************)
(* The output path on its own: inputFilename, outputFilename and           *)
(* outputPath for an input that exists, over a family of file names.       *)
(***************************************************************************)
\* number of pieces a file name is made of
MaxPieces == 4

T_dotBak == << ".", "b", "a", "k" >>
T_dotJson == << ".", "j", "s", "o", "n" >>

NamePieces == { T_a, T_dotJsonl, T_dotBak, T_dotJson }

RECURSIVE Concat(_, _)
Concat(q, i) == IF i > Len(q) THEN << >> ELSE q[i] \o Concat(q, i + 1)

FileNames ==
  { Concat(q, 1) : q \in SeqsUpTo(NamePieces, MaxPieces) \ { << >> } }

Directories == { << T_in >>, << T_out >> }

NamingInit ==
  /\ inputPath \in { pathJoin(d, n) : d \in Directories, n \in FileNames }
  /\ outputDir \in Directories
  /\ outputPath = NoPath
  /\ inputExists = TRUE
  /\ outputDirExists = TRUE
  /\ input = << >>
  /\ DriverIdle
  /\ orig = JNull
  /\ obj = JNull
  /\ calls = 0
  /\ threw = FALSE

\* const inputFilename = path.basename(inputPath); outputFilename = ...;
\* outputPath = path.join(outputDir, outputFilename)
ResolveOutputPath ==
  /\ outputPath = NoPath
  /\ outputPath' = OutputPathOf(inputPath, outputDir)
  /\ UNCHANGED << inputPath, outputDir, dvars, rvars >>

NamingNext == ResolveOutputPath

NamingSpec == NamingInit /\ [][NamingNext]_vars

EndsWith(s, suffix) ==
  /\ Len(s) >= Len(suffix)
  /\ SubSeq(s, Len(s) - Len(suffix) + 1, Len(s)) = suffix

\* C12: the output file is in the output directory, its name is the input's
\* base name with the trailing .jsonl replaced by .hashed.jsonl, and the
\* output path is never the input path.
C12_OutputName ==
  outputPath # NoPath =>
    /\ SubSeq(outputPath, 1, Len(outputPath) - 1) = outputDir
    /\ EndsWith(basename(inputPath), T_dotJsonl) =>
         basename(outputPath) =
           SubSeq(basename(inputPath), 1,
                  Len(basename(inputPath)) - Len(T_dotJsonl))
             \o T_dotHashedJsonl
    /\ outputPath # inputPath

\* the part of C12 about the name alone
C12_SuffixReplaced ==
  (outputPath # NoPath /\ EndsWith(basename(inputPath), T_dotJsonl)) =>
    basename(outputPath) =
      SubSeq(basename(inputPath), 1,
             Len(basename(inputPath)) - Len(T_dotJsonl))
        \o T_dotHashedJsonl

\* the part of C12 about the output not being the input
C12_NotTheInput == outputPath # NoPath => outputPath # inputPath

\* C12 for the names that hold .jsonl once, at their end
C12_SingleSuffix ==
  ( /\ outputPath # NoPath
    /\ EndsWith(basename(inputPath), T_dotJsonl)
    /\ IndexOf(basename(inputPath), T_dotJsonl)
         = Len(basename(inputPath)) - Len(T_dotJsonl) + 1 ) =>
    /\ basename(outputPath) =
         SubSeq(basename(inputPath), 1,
                Len(basename(inputPath)) - Len(T_dotJsonl))
           \o T_dotHashedJsonl
    /\ outputPath # inputPath

====
